---------------------------- MODULE Spec2Model ----------------------------
(***************************************************************************)
(* Voxel carving (shape from silhouette): the grid builder, the projector, *)
(* the per-image occupancy voter, the aggregator and the minimum-occupancy *)
(* filter of src/src/voxeling.py, as a state machine of one reconstruction *)
(* run.                                                                    *)
(*                                                                         *)
(* Numbers.  The source computes in numpy float64.  A float64 value is     *)
(* modelled as a record [kind, sign, man, exp]: kind "num" is the value    *)
(* sign * man * 2^exp with man an odd natural of at most 53 bits (or zero),*)
(* kind "nan" and "inf" are the IEEE specials.  Every arithmetic result is *)
(* rounded to 53 significant bits, ties to even, as IEEE-754 binary64      *)
(* does.  Mantissas exceed TLC's integers, so they are little-endian       *)
(* sequences of limbs in base 2^13.  The exponent range is not modelled:   *)
(* the inputs are of moderate magnitude, far from overflow and underflow.  *)
(***************************************************************************)
EXTENDS Integers, Sequences, FiniteSets

VARIABLES
    pc,                    \* stage of the run
    cast,                  \* what float -> int64 does to nan/inf on this build
    grid_args,             \* arguments of get_voxel_grid_points
    voxel_points,          \* 4 x M matrix of float64 (sequence of 4 rows)
    images_masks,          \* list of H x W masks
    ppms,                  \* list of 3 x 4 projection matrices
    points_2d,             \* pixel points of the view voted last
    voxel_points_in_mask,  \* list of vote vectors, then the stacked matrix
    occupancy,             \* per-voxel sum of the votes
    min_occupancy,         \* threshold given to the filter
    carved,                \* columns kept by the filter (4 x K)
    rgrid                  \* the rectilinear grid handed to the vtk writer

vars == <<pc, cast, grid_args, voxel_points, images_masks, ppms, points_2d,
          voxel_points_in_mask, occupancy, min_occupancy, carved, rgrid>>

---------------------------------------------------------------------------
(* Bounds of the model.                                                    *)

\* largest mesh_grid_size given to get_voxel_grid_points
MaxGridSize == 3

\* largest number of masks, and of projection matrices, given to the voter
MaxImages == 2

---------------------------------------------------------------------------
(* Naturals of arbitrary size: little-endian limbs, no leading zero limb.  *)

LimbBits == 13

Base == 2^LimbBits

Limb(n, i) == IF i <= Len(n) THEN n[i] ELSE 0

RECURSIVE Trim(_)
Trim(n) ==
    IF n = <<>> THEN <<>>
    ELSE IF n[Len(n)] = 0 THEN Trim(SubSeq(n, 1, Len(n) - 1))
    ELSE n

RECURSIVE BigOfNat(_)
BigOfNat(k) ==
    IF k = 0 THEN <<>> ELSE <<k % Base>> \o BigOfNat(k \div Base)

RECURSIVE AddFrom(_, _, _, _)
AddFrom(a, b, i, c) ==
    IF i > Len(a) /\ i > Len(b)
    THEN (IF c = 0 THEN <<>> ELSE <<c>>)
    ELSE LET t == Limb(a, i) + Limb(b, i) + c
         IN  <<t % Base>> \o AddFrom(a, b, i + 1, t \div Base)

BigAdd(a, b) == AddFrom(a, b, 1, 0)

\* a - b for a >= b
RECURSIVE SubFrom(_, _, _, _)
SubFrom(a, b, i, br) ==
    IF i > Len(a) THEN <<>>
    ELSE LET t == Limb(a, i) - Limb(b, i) - br
         IN  IF t < 0
             THEN <<t + Base>> \o SubFrom(a, b, i + 1, 1)
             ELSE <<t>> \o SubFrom(a, b, i + 1, 0)

BigSub(a, b) == Trim(SubFrom(a, b, 1, 0))

\* -1, 0, 1 as a < b, a = b, a > b, comparing from limb i downwards
RECURSIVE CmpFrom(_, _, _)
CmpFrom(a, b, i) ==
    IF i = 0 THEN 0
    ELSE IF a[i] < b[i] THEN -1
    ELSE IF a[i] > b[i] THEN 1
    ELSE CmpFrom(a, b, i - 1)

BigCmp(a, b) ==
    IF Len(a) < Len(b) THEN -1
    ELSE IF Len(a) > Len(b) THEN 1
    ELSE CmpFrom(a, b, Len(a))

\* a * k for a natural k < 2^17
RECURSIVE MulFrom(_, _, _, _)
MulFrom(a, k, i, c) ==
    IF i > Len(a)
    THEN BigOfNat(c)
    ELSE LET t == a[i] * k + c
         IN  <<t % Base>> \o MulFrom(a, k, i + 1, t \div Base)

BigMulSmall(a, k) == Trim(MulFrom(a, k, 1, 0))

ZeroLimbs(n) == [i \in 1..n |-> 0]

\* a * b, schoolbook over the limbs of a
RECURSIVE MulAcc(_, _, _)
MulAcc(a, b, i) ==
    IF i > Len(a) THEN <<>>
    ELSE BigAdd(Trim(ZeroLimbs(i - 1) \o BigMulSmall(b, a[i])),
                MulAcc(a, b, i + 1))

BigMul(a, b) == MulAcc(a, b, 1)

\* quotient and remainder of a by a natural 0 < d < 2^17, from limb i down
RECURSIVE DivFrom(_, _, _, _)
DivFrom(a, d, i, r) ==
    IF i = 0 THEN [q |-> <<>>, r |-> r]
    ELSE LET cur  == r * Base + a[i]
             rest == DivFrom(a, d, i - 1, cur % d)
         IN  [q |-> Append(rest.q, cur \div d), r |-> rest.r]

BigDivSmall(a, d) ==
    LET x == DivFrom(a, d, Len(a), 0) IN [q |-> Trim(x.q), r |-> x.r]

\* a * 2^n
ShiftLeft(a, n) ==
    IF a = <<>> THEN <<>>
    ELSE ZeroLimbs(n \div LimbBits) \o BigMulSmall(a, 2^(n % LimbBits))

\* a \div 2^n, and whether a nonzero remainder was dropped
ShiftRight(a, n) ==
    LET k    == n \div LimbBits
        low  == SubSeq(a, 1, IF k < Len(a) THEN k ELSE Len(a))
        high == SubSeq(a, k + 1, Len(a))
        d    == BigDivSmall(high, 2^(n % LimbBits))
    IN  [q |-> d.q,
         sticky |-> d.r # 0 \/ \E i \in 1..Len(low) : low[i] # 0]

BitLen(a) ==
    IF a = <<>> THEN 0
    ELSE (Len(a) - 1) * LimbBits
         + (CHOOSE b \in 1..LimbBits :
                2^(b - 1) <= a[Len(a)] /\ a[Len(a)] < 2^b)

IsOdd(a) == a # <<>> /\ a[1] % 2 = 1

---------------------------------------------------------------------------
(* float64.                                                                *)

\* significant bits of a float64
Precision == 53

FZero == [kind |-> "num", sign |-> 1, man |-> <<>>, exp |-> 0]

FNaN == [kind |-> "nan", sign |-> 1, man |-> <<>>, exp |-> 0]

FInf(s) == [kind |-> "inf", sign |-> s, man |-> <<>>, exp |-> 0]

\* the record of s * m * 2^e with the factors of two moved into the exponent
RECURSIVE Canon(_, _, _)
Canon(s, m, e) ==
    IF m = <<>> THEN FZero
    ELSE IF m[1] = 0 THEN Canon(s, SubSeq(m, 2, Len(m)), e + LimbBits)
    ELSE IF m[1] % 2 = 0 THEN Canon(s, BigDivSmall(m, 2).q, e + 1)
    ELSE [kind |-> "num", sign |-> s, man |-> m, exp |-> e]

\* kept + 1 when the dropped part is above half, or is half and kept is odd
RoundKept(s, kept, guard, rest, e) ==
    Canon(s, IF guard /\ (rest \/ IsOdd(kept)) THEN BigAdd(kept, <<1>>) ELSE kept, e)

\* sr is the magnitude shifted down to Precision + 1 bits: the last is the guard
RoundDrop(s, sr, e, sticky) ==
    RoundKept(s, BigDivSmall(sr.q, 2).q, IsOdd(sr.q), sr.sticky \/ sticky, e)

\* s * (m + d) * 2^e rounded to Precision bits, ties to even, where
\* 0 <= d < 1 and d > 0 iff sticky; sticky needs BitLen(m) > Precision
RoundNum(s, m, e, sticky) ==
    IF BitLen(m) <= Precision THEN Canon(s, m, e)
    ELSE RoundDrop(s, ShiftRight(m, BitLen(m) - Precision - 1),
                   e + BitLen(m) - Precision, sticky)

\* int -> float64, exact for the small integers used here
FromInt(i) == Canon(IF i < 0 THEN -1 ELSE 1, BigOfNat(IF i < 0 THEN -i ELSE i), 0)

FNeg(a) == [a EXCEPT !.sign = IF a = FZero \/ a.kind = "nan" THEN 1 ELSE -a.sign]

\* sa * ma * 2^e + sb * mb * 2^e, rounded
AddAligned(sa, ma, sb, mb, e) ==
    RoundNum(IF sa = sb \/ BigCmp(ma, mb) >= 0 THEN sa ELSE sb,
             IF sa = sb THEN BigAdd(ma, mb)
             ELSE IF BigCmp(ma, mb) >= 0 THEN BigSub(ma, mb)
             ELSE BigSub(mb, ma),
             e, FALSE)

AddExp(a, b, e) ==
    AddAligned(a.sign, ShiftLeft(a.man, a.exp - e),
               b.sign, ShiftLeft(b.man, b.exp - e), e)

FAdd(a, b) ==
    IF a.kind = "nan" \/ b.kind = "nan" THEN FNaN
    ELSE IF a.kind = "inf" /\ b.kind = "inf"
         THEN (IF a.sign = b.sign THEN a ELSE FNaN)
    ELSE IF a.kind = "inf" THEN a
    ELSE IF b.kind = "inf" THEN b
    ELSE IF a.man = <<>> THEN b
    ELSE IF b.man = <<>> THEN a
    ELSE AddExp(a, b, IF a.exp < b.exp THEN a.exp ELSE b.exp)

FSub(a, b) == FAdd(a, FNeg(b))

FMul(a, b) ==
    IF a.kind = "nan" \/ b.kind = "nan" THEN FNaN
    ELSE IF a.kind = "inf" \/ b.kind = "inf"
         THEN (IF a = FZero \/ b = FZero THEN FNaN ELSE FInf(a.sign * b.sign))
    ELSE RoundNum(a.sign * b.sign, BigMul(a.man, b.man), a.exp + b.exp, FALSE)

DivShifted(a, b, d) ==
    RoundNum(a.sign * b.sign, d.q, a.exp - b.exp - (Precision + 2 * LimbBits), d.r # 0)

\* a / b for a divisor whose odd mantissa is one limb (here: a small
\* integer, or zero); numpy divides by zero without raising: x/0 is inf,
\* 0/0 is nan
FDiv(a, b) ==
    IF a.kind = "nan" \/ b.kind = "nan" THEN FNaN
    ELSE IF a.kind = "inf" THEN (IF b.kind = "inf" THEN FNaN ELSE FInf(a.sign * b.sign))
    ELSE IF b.kind = "inf" THEN FZero
    ELSE IF b.man = <<>>
         THEN (IF a.man = <<>> THEN FNaN ELSE FInf(a.sign * b.sign))
    ELSE DivShifted(a, b, BigDivSmall(ShiftLeft(a.man, Precision + 2 * LimbBits), b.man[1]))

\* a < b on numbers
FLess(a, b) ==
    LET d == FSub(a, b) IN d.man # <<>> /\ d.sign = -1

FLeq(a, b) == a = b \/ FLess(a, b)

---------------------------------------------------------------------------
(* What a call does: it returns a value or raises.                         *)

Returned(v) == [raised |-> FALSE, value |-> v]

Raised == [raised |-> TRUE, value |-> <<>>]

---------------------------------------------------------------------------
(* Scaler and GridBuilder.                                                 *)

SeqMin(arr) == CHOOSE v \in {arr[i] : i \in 1..Len(arr)} :
                   \A i \in 1..Len(arr) : v <= arr[i]

SeqMax(arr) == CHOOSE v \in {arr[i] : i \in 1..Len(arr)} :
                   \A i \in 1..Len(arr) : v >= arr[i]

\* the scaling without its offset: (arr - arr.min()) * (max_value -
\* min_value) / (arr.max() - arr.min())
min_max_scale_no_offset(arr, min_value, max_value) ==
    IF arr = <<>> THEN Raised
    ELSE LET lo  == SeqMin(arr)
             den == FromInt(SeqMax(arr) - lo)
             d   == FSub(max_value, min_value)
             f   == [v \in {arr[i] : i \in 1..Len(arr)} |->
                        FDiv(FMul(FromInt(v - lo), d), den)]
         IN  Returned([i \in 1..Len(arr) |-> f[arr[i]]])

\* min_value + (arr - arr.min()) * (max_value - min_value)
\*                 / (arr.max() - arr.min())
\* arr is an integer array; arr.min() of an empty array raises ValueError;
\* a zero divisor does not raise (numpy warns and yields nan or inf)
min_max_scale(arr, min_value, max_value) ==
    IF arr = <<>> THEN Raised
    ELSE LET lo  == SeqMin(arr)
             den == FromInt(SeqMax(arr) - lo)
             d   == FSub(max_value, min_value)
             f   == [v \in {arr[i] : i \in 1..Len(arr)} |->
                        FAdd(min_value, FDiv(FMul(FromInt(v - lo), d), den))]
         IN  Returned([i \in 1..Len(arr) |-> f[arr[i]]])

\* np.arange(n)
arange(n) == [i \in 1..n |-> i - 1]

\* np.meshgrid(a, a, a) with the default 'xy' indexing, each array
\* flattened in C order: element [i, j, k] of the (S, S, S) arrays sits at
\* i*S*S + j*S + k, and there x = a[j], y = a[i], z = a[k]
meshgrid_flat(a) ==
    LET S == Len(a)
        M == S * S * S
    IN  [x |-> [n \in 1..M |-> a[(((n - 1) \div S) % S) + 1]],
         y |-> [n \in 1..M |-> a[((n - 1) \div (S * S)) + 1]],
         z |-> [n \in 1..M |-> a[((n - 1) % S) + 1]]]

\* np.vstack((x, y, z, np.ones(x.shape))).astype(float), unless a scaling raised
vstack_grid(x, y, z) ==
    IF x.raised \/ y.raised \/ z.raised THEN Raised
    ELSE Returned(<<x.value, y.value, z.value,
                    [n \in 1..Len(x.value) |-> FromInt(1)]>>)

scale_axes(g, x_min, x_max, y_min, y_max, z_min, z_max) ==
    vstack_grid(min_max_scale(g.x, x_min, x_max),
                min_max_scale(g.y, y_min, y_max),
                min_max_scale(g.z, z_min, z_max))

get_voxel_grid_points(mesh_grid_size, x_min, x_max, y_min, y_max, z_min, z_max) ==
    scale_axes(meshgrid_flat(arange(mesh_grid_size)),
               x_min, x_max, y_min, y_max, z_min, z_max)

---------------------------------------------------------------------------
(* Projector.  The voter's runs use grid coordinates and matrix entries    *)
(* that are small integers (or small dyadic fractions).  On those, every   *)
(* float64 product and sum of ppm @ points is exact, and the correctly     *)
(* rounded quotient u / w lies on the same side of every half-integer as   *)
(* the exact quotient (it is exact when u / w is a half-integer, and       *)
(* otherwise at least 1 / (2 |w|) away from one), so np.round of it is the *)
(* exact quotient rounded half to even.  The projection is computed on     *)
(* exact integers accordingly.                                             *)

\* the natural a mantissa of at most two limbs denotes
SmallNat(m) ==
    IF m = <<>> THEN 0 ELSE IF Len(m) = 1 THEN m[1] ELSE m[1] + Base * m[2]

\* the exact value num / den of a float64 number, den a power of two
ExactRat(f) ==
    IF f.exp >= 0
    THEN [num |-> f.sign * SmallNat(f.man) * 2^f.exp, den |-> 1]
    ELSE [num |-> f.sign * SmallNat(f.man), den |-> 2^(-f.exp)]

MaxDen(r) == CHOOSE d \in {r[c].den : c \in 1..4} : \A c \in 1..4 : r[c].den <= d

\* a column (x, y, z, 1) as integers over the common denominator; ratios of
\* the projected components do not depend on that denominator
OverCommonDen(r, D) == [c \in 1..4 |-> r[c].num * (D \div r[c].den)]

HomogeneousInts(col) ==
    LET r == [c \in 1..4 |-> ExactRat(col[c])] IN OverCommonDen(r, MaxDen(r))

\* ppm @ column
MatVec(ppm, v) ==
    [r \in 1..3 |-> ppm[r][1] * v[1] + ppm[r][2] * v[2]
                    + ppm[r][3] * v[3] + ppm[r][4] * v[4]]

\* n / d truncated towards zero: .astype(int) without np.round
RoundHalfEven_truncate(n, d) ==
    LET nn == IF d < 0 THEN -n ELSE n
        dd == IF d < 0 THEN -d ELSE d
    IN  IF nn >= 0 THEN nn \div dd ELSE -((-nn) \div dd)

\* n / d rounded half to even (np.round), for d # 0
RoundHalfEven(n, d) ==
    LET nn == IF d < 0 THEN -n ELSE n
        dd == IF d < 0 THEN -d ELSE d
        q  == nn \div dd
        r  == nn - q * dd
    IN  IF 2 * r < dd THEN q
        ELSE IF 2 * r > dd THEN q + 1
        ELSE IF q % 2 = 0 THEN q ELSE q + 1

PixNaN == [kind |-> "nan", sign |-> 1, val |-> 0]

\* np.round(n / d) as float64: a zero divisor gives nan (0 / 0) or inf
DivideRound(n, d) ==
    IF d = 0
    THEN (IF n = 0 THEN PixNaN
          ELSE [kind |-> "inf", sign |-> IF n < 0 THEN -1 ELSE 1, val |-> 0])
    ELSE [kind |-> "num", sign |-> 1, val |-> RoundHalfEven(n, d)]

\* points_2d /= points_2d[-1, :], then np.round, on one column
DivideByLast(u) == [r \in 1..3 |-> DivideRound(u[r], u[3])]

\* a nan coordinate makes every component of ppm @ column nan
ProjectColumn(ppm, col) ==
    IF \E c \in 1..4 : col[c].kind # "num"
    THEN [r \in 1..3 |-> PixNaN]
    ELSE DivideByLast(MatVec(ppm, HomogeneousInts(col)))

\* the int64 extremes, beyond TLC's integers: they stand as the extremes of
\* TLC's integers, and are only ever compared with 0 and an image size
INT64_MAX == 2^30 + (2^30 - 1)

INT64_MIN == -INT64_MAX - 1

\* .astype(int) of a float64
AsTypeInt(v) ==
    IF v.kind = "num" THEN v.val
    ELSE IF cast = "indefinite" THEN INT64_MIN
    ELSE IF v.kind = "nan" THEN 0
    ELSE IF v.sign > 0 THEN INT64_MAX ELSE INT64_MIN

Transpose3(cols) == [r \in 1..3 |-> [i \in 1..Len(cols) |-> cols[i][r]]]

Column(points, i) == [c \in 1..4 |-> points[c][i]]

RoundedColumn(ppm, col) == [r \in 1..3 |-> AsTypeInt(ProjectColumn(ppm, col)[r])]

get_pixel_points(ppm, points) ==
    Transpose3([i \in 1..Len(points[1]) |-> RoundedColumn(ppm, Column(points, i))])

---------------------------------------------------------------------------
(* OccupancyVoter: the body of the loop over zip(ppms, images_masks).      *)

\* the lookup without .astype(bool): the mask value itself
MaskLookup_no_astype(img, px, py) == img[py + 1][px + 1]

\* res = img[py, px].astype(bool), stored into the float array
MaskLookup(img, px, py) == IF img[py + 1][px + 1] # 0 THEN 1 ELSE 0

\* the vote vector started from np.ones instead of np.zeros
points_in_mask_of_ones(img, p2d) ==
    LET image_width  == Len(img[1])
        image_height == Len(img)
    IN  [i \in 1..Len(p2d[1]) |->
            IF /\ p2d[1][i] >= 0 /\ p2d[1][i] < image_width
               /\ p2d[2][i] >= 0 /\ p2d[2][i] < image_height
            THEN MaskLookup(img, p2d[1][i], p2d[2][i])
            ELSE 1]

\* points_in_mask for one image, given its points_2d
points_in_mask_of(img, p2d) ==
    LET image_width  == Len(img[1])
        image_height == Len(img)
    IN  [i \in 1..Len(p2d[1]) |->
            IF /\ p2d[1][i] >= 0 /\ p2d[1][i] < image_width
               /\ p2d[2][i] >= 0 /\ p2d[2][i] < image_height
            THEN MaskLookup(img, p2d[1][i], p2d[2][i])
            ELSE 0]

---------------------------------------------------------------------------
(* OccupancyAggregator.                                                    *)

\* np.sum(voxel_points_in_masks, axis=0): the votes are 0.0 / 1.0 floats,
\* whose sums are exact
RECURSIVE SumRows(_, _)
SumRows(rows, n) ==
    IF n = 1 THEN rows[1]
    ELSE [i \in 1..Len(rows[1]) |-> SumRows(rows, n - 1)[i] + rows[n][i]]

\* np.sum(voxel_points_in_masks[1:], axis=0): the first view left out
get_voxel_points_occupancy_skip_first(voxel_points_in_masks) ==
    IF Len(voxel_points_in_masks) = 1
    THEN [i \in 1..Len(voxel_points_in_masks[1]) |-> 0]
    ELSE SumRows(Tail(voxel_points_in_masks), Len(voxel_points_in_masks) - 1)

get_voxel_points_occupancy(voxel_points_in_masks) ==
    SumRows(voxel_points_in_masks, Len(voxel_points_in_masks))

\* the indices i >= n, in order, at which keep[i] holds
RECURSIVE KeptFrom(_, _)
KeptFrom(keep, n) ==
    IF n > Len(keep) THEN <<>>
    ELSE IF keep[n] THEN <<n>> \o KeptFrom(keep, n + 1)
    ELSE KeptFrom(keep, n + 1)

\* matrix[:, keep] for a boolean array keep
BooleanIndex(matrix, idx) ==
    [r \in 1..Len(matrix) |-> [k \in 1..Len(idx) |-> matrix[r][idx[k]]]]

\* voxel_points[:, occupancy > min_occupancy]
get_voxel_points_by_minimum_occupancy_strict(points, occ, min_occ) ==
    BooleanIndex(points, KeptFrom([i \in 1..Len(occ) |-> occ[i] > min_occ], 1))

\* voxel_points[:, occupancy == min_occupancy]
get_voxel_points_by_minimum_occupancy_equal(points, occ, min_occ) ==
    BooleanIndex(points, KeptFrom([i \in 1..Len(occ) |-> occ[i] = min_occ], 1))

get_voxel_points_by_minimum_occupancy(points, occ, min_occ) ==
    BooleanIndex(points, KeptFrom([i \in 1..Len(occ) |-> occ[i] >= min_occ], 1))

---------------------------------------------------------------------------
(* The exporter: save_voxels_as_rectilinear_grid of src/src/data_saver.py. *)

\* significant bits of the C float a vtkFloatArray stores
SinglePrecision == 24

\* float64 -> float32 as vtkFloatArray.InsertNextValue stores a value:
\* rounded to 24 significant bits, ties to even (the exponent range is not
\* modelled); nan and inf stay what they are
ToFloat32(f) ==
    IF f.kind # "num" \/ BitLen(f.man) <= SinglePrecision THEN f
    ELSE RoundDrop(f.sign,
                   ShiftRight(f.man, BitLen(f.man) - SinglePrecision - 1),
                   f.exp + BitLen(f.man) - SinglePrecision, FALSE)

\* row[start:stop:step] for 0 <= start and step >= 1
Slice(row, start, stop, step) ==
    LET end == IF stop < Len(row) THEN stop ELSE Len(row)
        cnt == IF end <= start THEN 0 ELSE (end - start + step - 1) \div step
    IN  [k \in 1..cnt |-> row[start + (k - 1) * step + 1]]

\* the slices with the strides of y and z exchanged
axis_slices_swapped(points, mesh_grid_size) ==
    [y |-> Slice(points[1], 0, Len(points[1]), mesh_grid_size * mesh_grid_size),
     z |-> Slice(points[2], 0, mesh_grid_size * mesh_grid_size, mesh_grid_size),
     x |-> Slice(points[3], 0, mesh_grid_size, 1)]

\* y = voxel_points[0, :mesh_grid_size*mesh_grid_size:mesh_grid_size]
\* z = voxel_points[1, ::mesh_grid_size*mesh_grid_size]
\* x = voxel_points[2, :mesh_grid_size]
axis_slices(points, mesh_grid_size) ==
    [y |-> Slice(points[1], 0, mesh_grid_size * mesh_grid_size, mesh_grid_size),
     z |-> Slice(points[2], 0, Len(points[2]), mesh_grid_size * mesh_grid_size),
     x |-> Slice(points[3], 0, mesh_grid_size, 1)]

\* a vtkFloatArray filled with InsertNextValue from arr
vtkFloatArray(arr) == [k \in 1..Len(arr) |-> ToFloat32(arr[k])]

\* the vtkRectilinearGrid given to the writer, with the local arrays x, y,
\* z it was made from
vtkRectilinearGrid(axes, occ) ==
    [x |-> axes.x, y |-> axes.y, z |-> axes.z,
     dimensions |-> <<Len(axes.x), Len(axes.y), Len(axes.z)>>,
     x_coords |-> vtkFloatArray(axes.x),
     y_coords |-> vtkFloatArray(axes.y),
     z_coords |-> vtkFloatArray(axes.z),
     values |-> vtkFloatArray([k \in 1..Len(occ) |-> FromInt(occ[k])])]

save_voxels_as_rectilinear_grid(points, occ, mesh_grid_size) ==
    vtkRectilinearGrid(axis_slices(points, mesh_grid_size), occ)

---------------------------------------------------------------------------
(* Inputs of the grid builder.                                             *)

RECURSIVE BigOfHex(_)
BigOfHex(h) ==
    IF h = <<>> THEN <<>>
    ELSE BigAdd(BigMulSmall(BigOfHex(SubSeq(h, 1, Len(h) - 1)), 16),
                BigOfNat(h[Len(h)]))

\* the float64 s * 0xh * 2^e
FloatOf(s, h, e) == Canon(s, BigOfHex(h), e)

\* float64 nearest to the decimal literals -0.1, 0.1, 0.3, 0.7
F_m0_1 == FloatOf(-1, <<1,9,9,9,9,9,9,9,9,9,9,9,9,10>>, -56)

F_0_1 == FloatOf(1, <<1,9,9,9,9,9,9,9,9,9,9,9,9,10>>, -56)

F_0_3 == FloatOf(1, <<1,3,3,3,3,3,3,3,3,3,3,3,3,3>>, -54)

F_0_7 == FloatOf(1, <<1,6,6,6,6,6,6,6,6,6,6,6,6,6>>, -53)

\* the float64 next after 1: 1 + 2^-52
F_1_next == FloatOf(1, <<1,0,0,0,0,0,0,0,0,0,0,0,0,1>>, -52)

\* (min, max) pairs with min < max, as a caller writes them; the last is
\* the narrowest range there is at 1
RealRanges ==
    { <<F_m0_1, F_0_3>>, <<F_0_1, F_0_7>>,
      <<FromInt(0), FromInt(1)>>, <<FloatOf(-1, <<3>>, -1), FloatOf(1, <<5>>, -1)>>,
      <<FromInt(1), F_1_next>> }

\* a box with integer bounds whose width every mesh_grid_size - 1 of the
\* model divides, so that all grid coordinates are small integers
IntegerBoxes ==
    { [x |-> <<FromInt(-6), FromInt(6)>>, y |-> <<FromInt(0), FromInt(6)>>,
       z |-> <<FromInt(0), FromInt(6)>>] }

\* silhouette masks, mask[py + 1][px + 1]; foreground is 255 (thresholding)
\* or 1 (numpy's True is 1), background is 0
MaskA == << <<255, 255>>, <<255, 255>> >>

MaskB == << <<1, 0, 1, 0>>, <<0, 1, 0, 1>>, <<1, 0, 1, 0>>, <<0, 1, 0, 1>> >>

Masks == {MaskA, MaskB}

\* 3 x 4 projection matrices: identity-like, a scale by one quarter with
\* the principal point one quarter of a pixel off in x, and a perspective
\* camera at the origin looking along z (w = z)
PpmIdentity == << <<1, 0, 0, 0>>, <<0, 1, 0, 0>>, <<0, 0, 0, 1>> >>

PpmQuarter == << <<1, 0, 0, 1>>, <<0, 1, 0, 0>>, <<0, 0, 0, 4>> >>

PpmPerspective == << <<1, 0, 0, 0>>, <<0, 1, 0, 0>>, <<0, 0, 1, 0>> >>

Ppms == {PpmIdentity, PpmQuarter, PpmPerspective}

SeqsUpTo(S, n) == UNION {[1..k -> S] : k \in 0..n}

\* occupancy arrays given to the exporter with a grid of M points: counts
\* in 0..MaxImages
Occupancies(M) ==
    { [n \in 1..M |-> 0], [n \in 1..M |-> (n - 1) % (MaxImages + 1)] }

\* nan/inf -> int64 is undefined behaviour of the C cast numpy compiles to:
\* "indefinite" builds (x86-64) give INT64_MIN for all three, "saturating"
\* builds (aarch64) give 0 for nan and the nearest extreme for +-inf
CastModes == {"indefinite", "saturating"}

---------------------------------------------------------------------------
(* The run.                                                                *)

Init ==
    /\ pc = "start"
    /\ cast \in CastModes
    /\ grid_args = <<>>
    /\ voxel_points = <<>>
    /\ images_masks = <<>>
    /\ ppms = <<>>
    /\ points_2d = <<>>
    /\ voxel_points_in_mask = <<>>
    /\ occupancy = <<>>
    /\ min_occupancy = 0
    /\ carved = <<>>
    /\ rgrid = <<>>

\* voxel_points = get_voxel_grid_points(S, *xr, *yr, *zr)
GridReturn(S, xr, yr, zr, r) ==
    /\ pc = "start"
    /\ grid_args' = [mesh_grid_size |-> S, x |-> xr, y |-> yr, z |-> zr]
    /\ pc' = IF r.raised THEN "error" ELSE "grid"
    /\ voxel_points' = r.value
    /\ UNCHANGED <<cast, images_masks, ppms, points_2d,
                   voxel_points_in_mask, occupancy, min_occupancy, carved, rgrid>>

GridCall(S, xr, yr, zr) ==
    GridReturn(S, xr, yr, zr,
               get_voxel_grid_points(S, xr[1], xr[2], yr[1], yr[2], zr[1], zr[2]))

BuildGridReal ==
    \E S \in 0..MaxGridSize : \E xr \in RealRanges, yr \in RealRanges, zr \in RealRanges :
        GridCall(S, xr, yr, zr)

BuildGrid ==
    \E S \in 0..MaxGridSize : \E box \in IntegerBoxes :
        GridCall(S, box.x, box.y, box.z)

\* the call get_voxel_points_projection_is_in_images_mask(images_masks,
\* ppms, voxel_points) begins: voxel_points_in_mask = []
CallVoter ==
    /\ pc = "grid"
    /\ images_masks' \in SeqsUpTo(Masks, MaxImages)
    /\ ppms' \in SeqsUpTo(Ppms, MaxImages)
    /\ voxel_points_in_mask' = <<>>
    /\ pc' = "voting"
    /\ UNCHANGED <<cast, grid_args, voxel_points, points_2d, occupancy,
                   min_occupancy, carved, rgrid>>

\* zip(ppms, images_masks) stops with the shorter of the two
ZipLen == IF Len(ppms) < Len(images_masks) THEN Len(ppms) ELSE Len(images_masks)

VoteWith(img, p2d) ==
    /\ points_2d' = p2d
    /\ voxel_points_in_mask' = Append(voxel_points_in_mask, points_in_mask_of(img, p2d))

\* one iteration of the loop
VoteStep ==
    /\ pc = "voting"
    /\ Len(voxel_points_in_mask) < ZipLen
    /\ VoteWith(images_masks[Len(voxel_points_in_mask) + 1],
                get_pixel_points(ppms[Len(voxel_points_in_mask) + 1], voxel_points))
    /\ UNCHANGED <<pc, cast, grid_args, voxel_points, images_masks, ppms,
                   occupancy, min_occupancy, carved, rgrid>>

\* return np.vstack(voxel_points_in_mask): ValueError on an empty list
VoteStack ==
    /\ pc = "voting"
    /\ Len(voxel_points_in_mask) = ZipLen
    /\ pc' = IF voxel_points_in_mask = <<>> THEN "error" ELSE "voted"
    /\ UNCHANGED <<cast, grid_args, voxel_points, images_masks, ppms, points_2d,
                   voxel_points_in_mask, occupancy, min_occupancy, carved, rgrid>>

Aggregate ==
    /\ pc = "voted"
    /\ occupancy' = get_voxel_points_occupancy(voxel_points_in_mask)
    /\ pc' = "aggregated"
    /\ UNCHANGED <<cast, grid_args, voxel_points, images_masks, ppms, points_2d,
                   voxel_points_in_mask, min_occupancy, carved, rgrid>>

Filter ==
    /\ pc = "aggregated"
    /\ \E t \in 0..(Len(voxel_points_in_mask) + 1) :
          /\ min_occupancy' = t
          /\ carved' = get_voxel_points_by_minimum_occupancy(voxel_points, occupancy, t)
    /\ pc' = "filtered"
    /\ UNCHANGED <<cast, grid_args, voxel_points, images_masks, ppms, points_2d,
                   voxel_points_in_mask, occupancy, rgrid>>

\* save_voxels_as_rectilinear_grid(file_path, voxel_points, occupancy,
\* mesh_grid_size) on a grid just built, with the size it was built with
SaveRectilinearGrid ==
    /\ pc = "grid"
    /\ \E occ \in Occupancies(Len(voxel_points[1])) :
          /\ occupancy' = occ
          /\ rgrid' = save_voxels_as_rectilinear_grid(voxel_points, occ,
                                                      grid_args.mesh_grid_size)
    /\ pc' = "saved"
    /\ UNCHANGED <<cast, grid_args, voxel_points, images_masks, ppms, points_2d,
                   voxel_points_in_mask, min_occupancy, carved>>

Next == BuildGrid \/ CallVoter \/ VoteStep \/ VoteStack \/ Aggregate \/ Filter

Spec == Init /\ [][Next]_vars

\* the grid builder alone, on float64 ranges
SpecGrid == Init /\ [][BuildGridReal]_vars

\* the grid builder on float64 ranges, then the exporter
SpecExport == Init /\ [][BuildGridReal \/ SaveRectilinearGrid]_vars

---------------------------------------------------------------------------
(* Properties of the grid builder, checked under SpecGrid.                 *)

GridBuilt == pc = "grid" /\ grid_args.mesh_grid_size >= 2

RowValues(row) == {row[i] : i \in 1..Len(row)}

RowMin(row) == CHOOSE v \in RowValues(row) : \A w \in RowValues(row) : FLeq(v, w)

RowMax(row) == CHOOSE v \in RowValues(row) : \A w \in RowValues(row) : FLeq(w, v)

\* m1 * 2^e1 <= m2 * 2^e2, exactly
DyadicLeq(m1, e1, m2, e2) ==
    LET e == IF e1 < e2 THEN e1 ELSE e2
    IN  BigCmp(ShiftLeft(m1, e1 - e), ShiftLeft(m2, e2 - e)) <= 0

\* the mantissa of |a - b| at exponent min(a.exp, b.exp), exactly
AbsDiffMan(a, b) ==
    LET e  == IF a.exp < b.exp THEN a.exp ELSE b.exp
        ma == ShiftLeft(a.man, a.exp - e)
        mb == ShiftLeft(b.man, b.exp - e)
    IN  IF a.sign # b.sign THEN BigAdd(ma, mb)
        ELSE IF BigCmp(ma, mb) >= 0 THEN BigSub(ma, mb)
        ELSE BigSub(mb, ma)

\* |v - hi| <= 2^-50 * max(|lo|, |hi|), exactly
WithinRounding(v, lo, hi) ==
    LET e   == IF v.exp < hi.exp THEN v.exp ELSE hi.exp
        big == IF DyadicLeq(lo.man, lo.exp, hi.man, hi.exp) THEN hi ELSE lo
    IN  DyadicLeq(AbsDiffMan(v, hi), e, big.man, big.exp - 50)

GridShape ==
    /\ Len(voxel_points) = 4
    /\ \A r \in 1..4 : Len(voxel_points[r]) = grid_args.mesh_grid_size ^ 3
    /\ \A n \in 1..Len(voxel_points[4]) : voxel_points[4][n] = FromInt(1)

AxisRange(r) == IF r = 1 THEN grid_args.x ELSE IF r = 2 THEN grid_args.y ELSE grid_args.z

C9_SmallGridRaises ==
    /\ (pc # "start" /\ grid_args.mesh_grid_size < 2) => pc = "error"
    /\ pc = "grid" => \A r \in 1..3 : \A n \in 1..Len(voxel_points[r]) :
                          voxel_points[r][n].kind = "num"

---------------------------------------------------------------------------
(* Properties of the voter, the projector and the aggregator, checked      *)
(* under Spec.                                                             *)

\* number of views voted so far
Voted == Len(voxel_points_in_mask)

\* a view has just been voted: points_2d is that of view Voted
JustVoted == pc = "voting" /\ Voted >= 1

NumVoxels == Len(voxel_points[1])

LastMask == images_masks[Voted]

LastVote == voxel_points_in_mask[Voted]

InFrame(img, px, py) == 0 <= px /\ px < Len(img[1]) /\ 0 <= py /\ py < Len(img)

Foreground(img, px, py) == img[py + 1][px + 1] # 0

\* C1: the vote vector of a view has one entry per voxel, and voxel i votes
\* 1 iff its rounded pixel projection (px, py) has 0 <= px < W, 0 <= py < H
\* and mask[py, px] is foreground; every other voxel votes 0.
C1_VoteIffInFrameForeground ==
    JustVoted =>
        /\ Len(LastVote) = NumVoxels
        /\ \A i \in 1..NumVoxels :
              /\ LastVote[i] \in {0, 1}
              /\ LastVote[i] = 1 <=>
                    /\ InFrame(LastMask, points_2d[1][i], points_2d[2][i])
                    /\ Foreground(LastMask, points_2d[1][i], points_2d[2][i])

\* a view with a voxel at px = W exactly, one at py = H exactly, one at a
\* negative coordinate, all voting 0, and a voxel voting 1
C1_Witness ==
    /\ JustVoted
    /\ \E i \in 1..NumVoxels : points_2d[1][i] = Len(LastMask[1]) /\ LastVote[i] = 0
    /\ \E i \in 1..NumVoxels : points_2d[2][i] = Len(LastMask) /\ LastVote[i] = 0
    /\ \E i \in 1..NumVoxels : points_2d[1][i] < 0 /\ LastVote[i] = 0
    /\ \E i \in 1..NumVoxels : LastVote[i] = 1

\* the aggregator has just returned; the filter changes neither the votes
\* nor the occupancy
Aggregated == pc = "aggregated"

\* C2: the occupancy count of voxel i is the number of views in which it
\* voted 1, and lies in 0..N, whatever value (1 or 255) encodes foreground,
\* every vote being 0 or 1.
C2_OccupancyCountsViews ==
    Aggregated =>
        /\ Len(occupancy) = NumVoxels
        /\ \A j \in 1..Voted : \A i \in 1..NumVoxels :
              voxel_points_in_mask[j][i] \in {0, 1}
        /\ \A i \in 1..NumVoxels :
              /\ occupancy[i] = Cardinality({j \in 1..Voted : voxel_points_in_mask[j][i] = 1})
              /\ 0 <= occupancy[i] /\ occupancy[i] <= Voted

\* two views, one mask encoding foreground as 255 and one as 1, a voxel
\* counted in both and a voxel counted in none
C2_Witness ==
    /\ pc = "aggregated"
    /\ Voted = 2
    /\ images_masks[1] = MaskA /\ images_masks[2] = MaskB
    /\ \E i \in 1..NumVoxels : occupancy[i] = 2
    /\ \E i \in 1..NumVoxels : occupancy[i] = 0

Qualifying(t) == {i \in 1..NumVoxels : occupancy[i] >= t}

\* the position of each qualifying index among the qualifying indices
Rank(Q) == [i \in Q |-> Cardinality({j \in Q : j <= i})]

KeptInOrder(Q, rank) ==
    \A r \in 1..4 :
        /\ Len(carved[r]) = Cardinality(Q)
        /\ \A i \in Q : carved[r][rank[i]] = voxel_points[r][i]

\* C3: the filter returns exactly the voxel columns whose count is at least
\* the threshold, each once and in their original order; so threshold 0
\* returns every voxel and threshold N + 1 returns none.
C3_FilterKeepsQualifyingInOrder ==
    pc = "filtered" =>
        /\ Len(carved) = 4
        /\ KeptInOrder(Qualifying(min_occupancy), Rank(Qualifying(min_occupancy)))
        /\ min_occupancy = 0 => carved = voxel_points
        /\ min_occupancy = Voted + 1 => \A r \in 1..4 : carved[r] = <<>>

\* a filter run that keeps some voxels and drops others
C3_Witness ==
    /\ pc = "filtered"
    /\ min_occupancy >= 1
    /\ Len(carved[1]) > 0
    /\ Len(carved[1]) < NumVoxels
    /\ \E i \in Qualifying(min_occupancy) : Rank(Qualifying(min_occupancy))[i] # i

Columns(m) == {[r \in 1..4 |-> m[r][k]] : k \in 1..Len(m[1])}

Filtered(t) == get_voxel_points_by_minimum_occupancy(voxel_points, occupancy, t)

Nested(F) ==
    \A t1 \in DOMAIN F : \A t2 \in DOMAIN F : t1 < t2 => F[t2] \subseteq F[t1]

\* C4: for thresholds t1 < t2 the points returned for t1 are a superset of
\* the points returned for t2.
C4_ThresholdMonotone ==
    Aggregated => Nested([t \in 0..(Voted + 2) |-> Columns(Filtered(t))])

\* two thresholds whose results differ, the larger one keeping something
C4_Witness ==
    /\ pc = "aggregated"
    /\ Columns(Filtered(2)) # {}
    /\ Columns(Filtered(2)) # Columns(Filtered(1))
    /\ Columns(Filtered(2)) \subseteq Columns(Filtered(1))

Perms(n) == {f \in [1..n -> 1..n] : \A a \in 1..n : \E b \in 1..n : f[b] = a}

\* C5: aggregating any permutation of the vote vectors gives the same
\* occupancy count.
C5_AggregateOrderIndependent ==
    Aggregated =>
        \A f \in Perms(Voted) :
            get_voxel_points_occupancy([j \in 1..Voted |-> voxel_points_in_mask[f[j]]])
                = occupancy

\* an aggregation of two different vote vectors
C5_Witness ==
    /\ pc = "aggregated"
    /\ Voted >= 2
    /\ voxel_points_in_mask[1] # voxel_points_in_mask[2]
    /\ \E i \in 1..NumVoxels : occupancy[i] = 1

\* (u, v, w) = ppm @ points[:, i] of the view voted last, over the common
\* denominator of the column
Projected(i) == MatVec(ppms[Voted], HomogeneousInts(Column(voxel_points, i)))

Finite(i) == \A c \in 1..4 : voxel_points[c][i].kind = "num"

Abs(n) == IF n < 0 THEN -n ELSE n

\* p is n / d rounded to the nearest integer, a tie going to the even one
IsRounded(p, n, d) ==
    /\ 2 * Abs(p * d - n) <= Abs(d)
    /\ 2 * Abs(p * d - n) = Abs(d) => p % 2 = 0

RoundedXY(i, uvw) ==
    /\ IsRounded(points_2d[1][i], uvw[1], uvw[3])
    /\ IsRounded(points_2d[2][i], uvw[2], uvw[3])

\* column i has a finite point and a divisor that is not zero
Divisible(i, uvw) == Finite(i) /\ uvw[3] # 0

\* with the identity-like matrix and w = 1 the rounded x, y come back
IdentityLike(i) ==
    ppms[Voted] = PpmIdentity =>
        /\ IsRounded(points_2d[1][i], ExactRat(voxel_points[1][i]).num,
                     ExactRat(voxel_points[1][i]).den)
        /\ IsRounded(points_2d[2][i], ExactRat(voxel_points[2][i]).num,
                     ExactRat(voxel_points[2][i]).den)

\* C7 as stated: project returns a 2 x M integer matrix whose column i is
\* (round(u / w), round(v / w)); with an identity-like matrix and w = 1 it
\* returns the rounded x, y.
C7_TwoRowsRounded ==
    JustVoted =>
        /\ Len(points_2d) = 2
        /\ \A r \in 1..Len(points_2d) : Len(points_2d[r]) = NumVoxels
        /\ \A i \in 1..NumVoxels :
              Divisible(i, Projected(i)) =>
                  RoundedXY(i, Projected(i)) /\ IdentityLike(i)

Rounded3(i, uvw) ==
    Divisible(i, uvw) =>
        RoundedXY(i, uvw) /\ IdentityLike(i) /\ points_2d[3][i] = 1

\* C7 amended: project returns a 3 x M integer matrix; for every column
\* with w # 0 its first two rows are round(u / w), round(v / w), ties to
\* even, and its third row is 1; with an identity-like matrix and w = 1 the
\* first two rows are the rounded x, y.
C7_ThreeRowsRounded ==
    JustVoted =>
        /\ Len(points_2d) = 3
        /\ \A r \in 1..Len(points_2d) : Len(points_2d[r]) = NumVoxels
        /\ \A i \in 1..NumVoxels :
              Rounded3(i, Projected(i))

\* a projection with a quotient exactly between two integers, rounded to
\* the even one, and a quotient that is rounded up
C7_Witness ==
    /\ JustVoted
    /\ \E i \in 1..NumVoxels : \E r \in 1..2 :
          /\ Divisible(i, Projected(i))
          /\ 2 * Abs(points_2d[r][i] * Projected(i)[3] - Projected(i)[r])
                 = Abs(Projected(i)[3])
    /\ \E i \in 1..NumVoxels : \E r \in 1..2 :
          /\ Divisible(i, Projected(i))
          /\ points_2d[r][i] * Projected(i)[3] > Projected(i)[r]
          /\ 2 * Abs(points_2d[r][i] * Projected(i)[3] - Projected(i)[r])
                 < Abs(Projected(i)[3])

\* C8 as stated: with sequences of different lengths an error is raised
\* before any projection work; no vote matrix comes from a truncated pairing.
C8_MismatchRaisesBeforeVoting ==
    Len(images_masks) # Len(ppms) =>
        /\ voxel_points_in_mask = <<>>
        /\ pc \notin {"voted", "aggregated", "filtered"}

\* C10 as stated: a voxel whose perspective divisor is exactly zero in a
\* view votes 0 in that view (and the run goes on).
C10_ZeroDivisorVotesZero ==
    JustVoted =>
        \A i \in 1..NumVoxels :
            (Finite(i) /\ Projected(i)[3] = 0) => LastVote[i] = 0

---------------------------------------------------------------------------
(* Properties of the exporter, checked under SpecExport.                   *)

\* the exporter has returned for a grid of size at least 2
Saved == pc = "saved" /\ grid_args.mesh_grid_size >= 2

\* the world point at 0-based index n is (yAxis[(n div S) mod S],
\* zAxis[n div S^2], xAxis[n mod S])
SameFlattening(S) ==
    /\ Len(rgrid.x) = S /\ Len(rgrid.y) = S /\ Len(rgrid.z) = S
    /\ \A n \in 0..(Len(voxel_points[1]) - 1) :
          /\ voxel_points[1][n + 1] = rgrid.y[((n \div S) % S) + 1]
          /\ voxel_points[2][n + 1] = rgrid.z[(n \div (S * S)) + 1]
          /\ voxel_points[3][n + 1] = rgrid.x[(n % S) + 1]

Increasing(axis) == \A k \in 1..(Len(axis) - 1) : FLess(axis[k], axis[k + 1])

NonDecreasing(axis) == \A k \in 1..(Len(axis) - 1) : FLeq(axis[k], axis[k + 1])

\* the coordinates of lattice node n (0-based) of the written grid, the
\* x index running fastest, then y, then z
NodeCoords(n) ==
    <<rgrid.x_coords[(n % rgrid.dimensions[1]) + 1],
      rgrid.y_coords[((n \div rgrid.dimensions[1]) % rgrid.dimensions[2]) + 1],
      rgrid.z_coords[(n \div (rgrid.dimensions[1] * rgrid.dimensions[2])) + 1]>>

\* voxel n's coordinates in the order of the lattice: world z, x, y
VoxelCoords(n) ==
    <<voxel_points[3][n + 1], voxel_points[1][n + 1], voxel_points[2][n + 1]>>

ScalarsInOrder ==
    /\ Len(rgrid.values) = Len(voxel_points[1])
    /\ \A n \in 1..Len(rgrid.values) : rgrid.values[n] = FromInt(occupancy[n])

\* C11 as stated: for S >= 2 the world point at index n is (yAxis[(n div
\* S) mod S], zAxis[n div S^2], xAxis[n mod S]) of the extracted axis
\* arrays, each axis array has S distinct increasing values, and the
\* occupancy written at position n lands on the lattice node (x fastest,
\* then y, then z) that has voxel n's coordinates.
C11_SameFlatteningExactNodes ==
    Saved =>
        /\ SameFlattening(grid_args.mesh_grid_size)
        /\ Increasing(rgrid.x) /\ Increasing(rgrid.y) /\ Increasing(rgrid.z)
        /\ ScalarsInOrder
        /\ \A n \in 0..(Len(voxel_points[1]) - 1) : NodeCoords(n) = VoxelCoords(n)

\* (hi - lo) / (S - 1) >= 2^-48 * max(|lo|, |hi|), exactly
WideStep(lo, hi, S) ==
    LET e   == IF lo.exp < hi.exp THEN lo.exp ELSE hi.exp
        big == IF DyadicLeq(lo.man, lo.exp, hi.man, hi.exp) THEN hi ELSE lo
    IN  DyadicLeq(BigMulSmall(big.man, S - 1), big.exp - 48, AbsDiffMan(hi, lo), e)

\* the axis array taken from a world row increases when the row's range
\* has a wide step, and never decreases
AxisOrdered(axis, range) ==
    /\ NonDecreasing(axis)
    /\ WideStep(range[1], range[2], grid_args.mesh_grid_size) => Increasing(axis)

Float32Coords(c) == <<ToFloat32(c[1]), ToFloat32(c[2]), ToFloat32(c[3])>>

\* C11 amended: for S >= 2 the world point at index n is (yAxis[(n div S)
\* mod S], zAxis[n div S^2], xAxis[n mod S]) of the extracted axis arrays;
\* each axis array has S values that never decrease, and that increase
\* when the step (max - min) / (S - 1) of its range is at least
\* 2^-48 * max(|min|, |max|); the occupancy written at position n lands on
\* the lattice node (x fastest, then y, then z) whose coordinates are voxel
\* n's coordinates rounded to float32.
C11_SameFlatteningFloat32Nodes ==
    Saved =>
        /\ SameFlattening(grid_args.mesh_grid_size)
        /\ AxisOrdered(rgrid.y, grid_args.x)
        /\ AxisOrdered(rgrid.z, grid_args.y)
        /\ AxisOrdered(rgrid.x, grid_args.z)
        /\ ScalarsInOrder
        /\ \A n \in 0..(Len(voxel_points[1]) - 1) :
              NodeCoords(n) = Float32Coords(VoxelCoords(n))

\* an export of a 3 x 3 x 3 grid with three different ranges, one whose
\* end is changed by the rounding to float32 and one so narrow that two
\* values of its axis array coincide, and with scalars that differ
C11_Witness ==
    /\ Saved
    /\ grid_args.mesh_grid_size = 3
    /\ grid_args.x = <<F_m0_1, F_0_3>>
    /\ grid_args.y = <<FromInt(1), F_1_next>>
    /\ grid_args.z = <<F_0_1, F_0_7>>
    /\ rgrid.y_coords[1] # rgrid.y[1]
    /\ Increasing(rgrid.y) /\ Increasing(rgrid.x)
    /\ \E k \in 1..2 : rgrid.z[k] = rgrid.z[k + 1]
    /\ \E n \in 1..Len(rgrid.values) : rgrid.values[n] # rgrid.values[1]

===========================================================================
